---- MODULE Spec2Model ----
(***************************************************************************)
(* A model of the reviewer-resolution engine (reviewer.js) and of the      *)
(* cached boundary accessors (github.js) of auto-request-review.           *)
(*                                                                         *)
(* JavaScript values are modelled as follows.                              *)
(*   - an array is a sequence;                                             *)
(*   - an object used as a map (groups, files, per_author) is a sequence   *)
(*     of [key, val] records with distinct keys, in insertion order, which *)
(*     is the order of Object.entries / Object.keys;                       *)
(*   - a property that may be missing is a record [set, val];              *)
(*   - a string that is searched or glob-matched is a sequence of one      *)
(*     character strings; an identifier that is only compared is a string; *)
(*   - the outcome of a call is a record of one fixed shape (Result).      *)
(***************************************************************************)
EXTENDS Integers, Sequences, FiniteSets, TLC

VARIABLES
    config,            \* the policy handed to the engine
    changed_files,     \* [total, last], each [added, removed, modified]
    excludes,          \* the caller-supplied exclusion list
    author,            \* the pull request's author
    title,             \* the pull request's title
    is_draft,          \* the pull request's draft flag
    reviewers_arg,     \* the list handed to replace_groups_with_individuals
    op,                \* the function that ran last
    result,            \* what it returned (or that it threw)
    github_context,    \* github.context, the source of get_context
    inputs,            \* core.getInput: [token, config, use_local]
    context_cache,     \* github.js module-level caches
    token_cache,
    config_path_cache,
    use_local_cache,
    octokit_cache,
    fresh              \* accessors not called since the module was loaded
                       \* or clear_cache last ran

vars == << config, changed_files, excludes, author, title, is_draft,
           reviewers_arg, op, result, github_context, inputs, context_cache,
           token_cache, config_path_cache, use_local_cache, octokit_cache,
           fresh >>

engine_inputs == << config, changed_files, excludes, author, title, is_draft,
                    reviewers_arg >>

boundary_vars == << github_context, inputs, context_cache, token_cache,
                    config_path_cache, use_local_cache, octokit_cache, fresh >>

----------------------------------------------------------------------------
(* Bounds of the model. *)

MaxReviewers == 2      \* longest reviewer list of a rule, defaults or argument
MaxMembers == 2        \* longest member list of a group
MaxTitleParts == 2     \* a title is at most this many fragments
MaxKeywords == 2       \* longest ignored_keywords list

----------------------------------------------------------------------------
(* Sequences as JavaScript arrays. *)

SeqsUpTo(S, n) == UNION { [1..k -> S] : k \in 0..n }

Range(s) == { s[i] : i \in 1..Len(s) }

\* Array.prototype.includes
Includes(s, x) == \E i \in 1..Len(s) : s[i] = x

NoDuplicates(s) == \A i, j \in 1..Len(s) : s[i] = s[j] => i = j

\* Array.from(new Set(s)), [...new Set(s)]: first occurrences, in order
RECURSIVE Dedup(_)
Dedup(s) ==
    IF s = <<>> THEN <<>>
    ELSE LET front == Dedup(SubSeq(s, 1, Len(s) - 1))
             last == s[Len(s)]
         IN IF Includes(front, last) THEN front ELSE Append(front, last)

\* s.filter((x) => x !== a)
Without(s, a) == SelectSeq(s, LAMBDA x : x # a)

\* s.filter((x) => !ex.includes(x))
NotIn(s, ex) == SelectSeq(s, LAMBDA x : ~Includes(ex, x))

\* haystack.includes(needle) on strings: needle is a contiguous run
StrIncludes(haystack, needle) ==
    \E i \in 0..(Len(haystack) - Len(needle)) :
        SubSeq(haystack, i + 1, i + Len(needle)) = needle

RECURSIVE Concat(_)
Concat(ss) == IF ss = <<>> THEN <<>> ELSE Head(ss) \o Concat(Tail(ss))

----------------------------------------------------------------------------
(* Optional properties and objects used as maps. *)

Unset == [set |-> FALSE, val |-> <<>>]
Some(v) == [set |-> TRUE, val |-> v]

UnsetFlag == [set |-> FALSE, val |-> FALSE]
Flag(b) == [set |-> TRUE, val |-> b]
Flags == { UnsetFlag, Flag(TRUE), Flag(FALSE) }

HasKey(m, k) == \E i \in 1..Len(m) : m[i].key = k
Get(m, k) == m[CHOOSE i \in 1..Len(m) : m[i].key = k].val
Keys(m) == [i \in 1..Len(m) |-> m[i].key]

\* every object whose keys are distinct members of K, in any order, with
\* values in V
Maps(K, V) ==
    { m \in UNION { [1..n -> [key : K, val : V]] : n \in 0..Cardinality(K) } :
        \A i, j \in 1..Len(m) : m[i].key = m[j].key => i = j }

----------------------------------------------------------------------------
(* The shape of an outcome. *)

Result(k, l, b, s) ==
    [kind |-> k, list |-> l, bool |-> b, str |-> s,
     matched |-> <<>>, must_be_added |-> <<>>,
     should_be_added |-> <<>>, could_be_removed |-> <<>>]

NoResult == Result("none", <<>>, FALSE, "")
List(l) == Result("list", l, FALSE, "")
Bool(b) == Result("bool", <<>>, b, "")
Str(s) == Result("string", <<>>, FALSE, s)
TypeError == Result("TypeError", <<>>, FALSE, "")
Buckets(r) ==
    [kind |-> "buckets", list |-> <<>>, bool |-> FALSE, str |-> "",
     matched |-> r.matched, must_be_added |-> r.must_be_added,
     should_be_added |-> r.should_be_added,
     could_be_removed |-> r.could_be_removed]

BucketNames == { "matched", "must_be_added", "should_be_added", "could_be_removed" }

Bucket(r, name) ==
    CASE name = "matched" -> r.matched
      [] name = "must_be_added" -> r.must_be_added
      [] name = "should_be_added" -> r.should_be_added
      [] name = "could_be_removed" -> r.could_be_removed

----------------------------------------------------------------------------
(* reviewer.js: the Group Resolver. *)

\* (config.reviewers && config.reviewers.groups) || {}
groups_of(cfg) ==
    IF cfg.reviewers.set /\ cfg.reviewers.groups.set
    THEN cfg.reviewers.groups.val
    ELSE <<>>

\* reviewers.flatMap((r) => Array.isArray(groups[r]) ? groups[r] : r)
RECURSIVE flat_map_groups(_, _)
flat_map_groups(reviewers, groups) ==
    IF reviewers = <<>> THEN <<>>
    ELSE (IF HasKey(groups, Head(reviewers))
          THEN Get(groups, Head(reviewers))
          ELSE << Head(reviewers) >>)
         \o flat_map_groups(Tail(reviewers), groups)

\* Only the groups are kept: an identifier that names no group is dropped.
mutant_replace_groups_with_individuals(reviewers, cfg, excl) ==
    LET groups == groups_of(cfg)
        named == SelectSeq(reviewers, LAMBDA r : HasKey(groups, r))
    IN NotIn(Dedup(flat_map_groups(named, groups)), excl)

replace_groups_with_individuals(reviewers, cfg, excl) ==
    LET groups == groups_of(cfg)
        individuals == flat_map_groups(reviewers, groups)
        deduplicated_individuals == Dedup(individuals)
    IN NotIn(deduplicated_individuals, excl)

----------------------------------------------------------------------------
(* reviewer.js: options merged over each function's DEFAULT_OPTIONS. *)

\* { ...DEFAULT_OPTIONS, ...config.options }.<name> for a boolean option
option(flag, default) == IF flag.set THEN flag.val ELSE default

----------------------------------------------------------------------------
(* reviewer.js: the Co-Membership Finder. *)

\* Object.entries(groups).map(...).filter((group_name) => group_name)
belonging_group_names(groups, a) ==
    Keys(SelectSeq(groups, LAMBDA e : Includes(e.val, a)))

\* belonging_group_names.flatMap((group_name) => groups[group_name])
RECURSIVE flat_map_members(_, _)
flat_map_members(names, groups) ==
    IF names = <<>> THEN <<>>
    ELSE Get(groups, Head(names)) \o flat_map_members(Tail(names), groups)

\* The author is not filtered out of the members.
mutant_fetch_other_group_members(a, cfg) ==
    LET should_group_assign == option(cfg.options.enable_group_assignment, FALSE)
        groups == groups_of(cfg)
    IN IF ~should_group_assign
       THEN List(<<>>)
       ELSE List(Dedup(flat_map_members(belonging_group_names(groups, a), groups)))

fetch_other_group_members(a, cfg) ==
    LET should_group_assign == option(cfg.options.enable_group_assignment, FALSE)
        groups == groups_of(cfg)
        other_group_members ==
            Without(flat_map_members(belonging_group_names(groups, a), groups), a)
    IN IF ~should_group_assign
       THEN List(<<>>)
       ELSE List(Dedup(other_group_members))

----------------------------------------------------------------------------
(* reviewer.js: the File-Rule Matcher. *)

\* minimatch(changed_file, glob_pattern) on the patterns of the model: "*"
\* is any run of characters other than "/", "?" is one such character, and
\* every other character stands for itself
RECURSIVE minimatch(_, _)
minimatch(file, pattern) ==
    IF pattern = <<>> THEN file = <<>>
    ELSE IF Head(pattern) = "*"
    THEN \/ minimatch(file, Tail(pattern))
         \/ file # <<>> /\ Head(file) # "/" /\ minimatch(Tail(file), pattern)
    ELSE IF Head(pattern) = "?"
    THEN file # <<>> /\ Head(file) # "/" /\ minimatch(Tail(file), Tail(pattern))
    ELSE file # <<>> /\ Head(file) = Head(pattern)
         /\ minimatch(Tail(file), Tail(pattern))

\* changed_files.some(has_matches)
some_matches(files, glob_pattern) ==
    \E i \in 1..Len(files) : minimatch(files[i], glob_pattern)

last_changed_files(cf) == cf.last.added \o cf.last.removed \o cf.last.modified

added_or_deleted(cf) == cf.last.added \o cf.last.removed

all_changed_files(cf) == cf.total.added \o cf.total.removed \o cf.total.modified

reverted_files(cf) ==
    SelectSeq(last_changed_files(cf), LAMBDA f : ~Includes(all_changed_files(cf), f))

\* The accumulator of line 53: four empty buckets.
empty_buckets ==
    [matched |-> <<>>, must_be_added |-> <<>>,
     should_be_added |-> <<>>, could_be_removed |-> <<>>]

\* The callback of the forEach of line 61, on one [glob_pattern, reviewers]
\* entry.  Its second parameter is named reviewers too and shadows the
\* accumulator: inside the callback reviewers is the rule's array, on which
\* .matched, .should_be_added, .must_be_added and .could_be_removed are
\* undefined.  Each guarded statement (lines 71/73, 77, 86, 97) reads a
\* property of that undefined value, which throws a TypeError; the
\* accumulator is never written.
rule_callback(acc, entry, cf, last_files_match_only) ==
    LET glob_pattern == entry.key
        throws ==
            \/ some_matches(last_changed_files(cf), glob_pattern)
            \/ some_matches(cf.last.modified, glob_pattern)
            \/ some_matches(added_or_deleted(cf), glob_pattern)
            \/ some_matches(reverted_files(cf), glob_pattern)
    IN IF acc.threw THEN acc
       ELSE [threw |-> throws, buckets |-> acc.buckets]

\* Object.entries(config.files).forEach(...)
RECURSIVE for_each_rule(_, _, _, _)
for_each_rule(acc, rules, cf, last_files_match_only) ==
    IF rules = <<>> THEN acc
    ELSE for_each_rule(rule_callback(acc, Head(rules), cf, last_files_match_only),
                       Tail(rules), cf, last_files_match_only)

\* lines 52-106: the function past its guard
classify_reviewers(cfg, cf, excl) ==
    LET last_files_match_only == option(cfg.options.last_files_match_only, FALSE)
        done == for_each_rule([threw |-> FALSE, buckets |-> empty_buckets],
                              cfg.files.val, cf, last_files_match_only)
        processed_reviewers ==
            [name \in BucketNames |->
                replace_groups_with_individuals(Bucket(done.buckets, name), cfg, excl)]
    IN IF done.threw THEN TypeError
       ELSE Buckets(processed_reviewers)

\* The guard of line 46 left out: Object.entries(undefined) throws.
mutant_identify_reviewers_by_changed_files(cfg, cf, excl) ==
    IF ~cfg.files.set THEN TypeError
    ELSE classify_reviewers(cfg, cf, excl)

identify_reviewers_by_changed_files(cfg, cf, excl) ==
    IF ~cfg.files.set THEN List(<<>>)
    ELSE classify_reviewers(cfg, cf, excl)

----------------------------------------------------------------------------
(* reviewer.js: the Author-Rule Matcher. *)

\* A key matches only literally: a group is never a key.
mutant_matches_author(key, specified_author, cfg) == key = specified_author

\* the filter callback of line 116
matches_author(key, specified_author, cfg) ==
    \/ key = specified_author
    \/ Includes(replace_groups_with_individuals(<< key >>, cfg, <<>>), specified_author)

\* matching_authors.flatMap(...) of line 130
RECURSIVE flat_map_rules(_, _, _)
flat_map_rules(matching_authors, per_author, cfg) ==
    IF matching_authors = <<>> THEN <<>>
    ELSE replace_groups_with_individuals(Get(per_author, Head(matching_authors)), cfg, <<>>)
         \o flat_map_rules(Tail(matching_authors), per_author, cfg)

identify_reviewers_by_author(cfg, specified_author) ==
    LET per_author == cfg.reviewers.per_author.val
        matching_authors ==
            SelectSeq(Keys(per_author), LAMBDA k : matches_author(k, specified_author, cfg))
        matching_reviewers == flat_map_rules(matching_authors, per_author, cfg)
    IN IF ~(cfg.reviewers.set /\ cfg.reviewers.per_author.set)
       THEN List(<<>>)
       ELSE List(Without(matching_reviewers, specified_author))

----------------------------------------------------------------------------
(* reviewer.js: the Request Gate. *)

DO_NOT_REVIEW == << "D", "O", " ", "N", "O", "T", " ", "R", "E", "V", "I", "E", "W" >>

\* The configured keywords are added to the default one.
mutant_should_request_review(t, draft, cfg) ==
    LET should_ignore_draft == option(cfg.options.ignore_draft, TRUE)
        ignored_keywords == << DO_NOT_REVIEW >> \o cfg.options.ignored_keywords.val
    IN IF should_ignore_draft /\ draft
       THEN Bool(FALSE)
       ELSE Bool(~ \E i \in 1..Len(ignored_keywords) :
                      StrIncludes(t, ignored_keywords[i]))

should_request_review(t, draft, cfg) ==
    LET should_ignore_draft == option(cfg.options.ignore_draft, TRUE)
        ignored_keywords ==
            IF cfg.options.ignored_keywords.set
            THEN cfg.options.ignored_keywords.val
            ELSE << DO_NOT_REVIEW >>
    IN IF should_ignore_draft /\ draft
       THEN Bool(FALSE)
       ELSE Bool(~ \E i \in 1..Len(ignored_keywords) :
                      StrIncludes(t, ignored_keywords[i]))

----------------------------------------------------------------------------
(* reviewer.js: the Default Reviewer Selector. *)

\* The exclusion filter of line 164 left out.
mutant_fetch_default_reviewers(cfg, excl) ==
    LET individuals ==
            replace_groups_with_individuals(cfg.reviewers.defaults.val, cfg, <<>>)
    IN IF ~cfg.reviewers.set \/ cfg.reviewers.defaults.kind # "array"
       THEN List(<<>>)
       ELSE List(Dedup(individuals))

fetch_default_reviewers(cfg, excl) ==
    LET individuals ==
            replace_groups_with_individuals(cfg.reviewers.defaults.val, cfg, <<>>)
    IN IF ~cfg.reviewers.set \/ cfg.reviewers.defaults.kind # "array"
       THEN List(<<>>)
       ELSE List(NotIn(Dedup(individuals), excl))

----------------------------------------------------------------------------
(* The inputs the engine is run on. *)

Users == { "alice", "bob" }
GroupNames == { "team", "ops" }
Ids == Users \cup GroupNames

\* a.t and b.j, in the order the platform lists them
FileList == << << "a", ".", "t" >>, << "b", ".", "j" >> >>
FileNames == Range(FileList)
\* *.t and b.?
GlobPatterns == { << "*", ".", "t" >>, << "b", ".", "?" >> }

\* WIP, "DO NOT", " REVIEW" and x
Fragments ==
    { << "W", "I", "P" >>, << "D", "O", " ", "N", "O", "T" >>,
      << " ", "R", "E", "V", "I", "E", "W" >>, << "x" >> }
Titles == { Concat(parts) : parts \in SeqsUpTo(Fragments, MaxTitleParts) }
\* WIP, x and "DO NOT "
Keywords == { << "W", "I", "P" >>, << "x" >>, << "D", "O", " ", "N", "O", "T", " " >> }

MemberLists == SeqsUpTo(Users, MaxMembers)
ReviewerLists == SeqsUpTo(Ids, MaxReviewers)
\* groups absent, or any map of team and ops; or of team alone
GroupChoices == { Unset } \cup { Some(m) : m \in Maps(GroupNames, MemberLists) }
OneGroupChoices == { Unset } \cup { Some(m) : m \in Maps({ "team" }, MemberLists) }
ExcludeLists == { <<>>, << "bob" >>, << "alice", "bob" >> }

no_options ==
    [enable_group_assignment |-> UnsetFlag, last_files_match_only |-> UnsetFlag,
     ignore_draft |-> UnsetFlag, ignored_keywords |-> Unset]

no_defaults == [kind |-> "absent", val |-> <<>>]

\* a policy without a reviewers section
no_reviewers ==
    [set |-> FALSE, groups |-> Unset, per_author |-> Unset, defaults |-> no_defaults]

reviewers_section(groups, per_author, defaults) ==
    [set |-> TRUE, groups |-> groups, per_author |-> per_author, defaults |-> defaults]

no_changes == [added |-> <<>>, removed |-> <<>>, modified |-> <<>>]

\* The diff in which file f has the status status[f] ("added", "removed",
\* "modified", or "none" when the diff does not list it).  The platform
\* lists each file once, so the three lists are disjoint.
diff_of(status) ==
    [added |-> SelectSeq(FileList, LAMBDA f : status[f] = "added"),
     removed |-> SelectSeq(FileList, LAMBDA f : status[f] = "removed"),
     modified |-> SelectSeq(FileList, LAMBDA f : status[f] = "modified")]

Statuses == { "none", "added", "removed", "modified" }

ChangeSets ==
    { [total |-> diff_of(t), last |-> diff_of(l)] :
        t \in [FileNames -> Statuses], l \in [FileNames -> Statuses] }

Accessors == { "get_context", "get_token", "get_config_path", "get_use_local", "get_octokit" }

\* The boundary layer plays no part in the engine: its state is held fixed.
BoundaryIdle ==
    /\ github_context = "ctx1"
    /\ inputs = [token |-> "t1", config |-> "p1", use_local |-> "false"]
    /\ context_cache = Unset
    /\ token_cache = Unset
    /\ config_path_cache = Unset
    /\ use_local_cache = UnsetFlag
    /\ octokit_cache = Unset
    /\ fresh = Accessors

NotCalled == op = "none" /\ result = NoResult /\ BoundaryIdle

\* Inputs of the Group Resolver.
InitResolver ==
    /\ \E g \in GroupChoices :
          config = [reviewers |-> reviewers_section(g, Unset, no_defaults),
                    files |-> Unset, options |-> no_options]
    /\ reviewers_arg \in ReviewerLists
    /\ excludes \in ExcludeLists
    /\ changed_files = [total |-> no_changes, last |-> no_changes]
    /\ author = "alice" /\ title = <<>> /\ is_draft = FALSE
    /\ NotCalled

\* Inputs of the Co-Membership Finder: groups over three users.
CoMembers == Users \cup { "carol" }
CoGroupChoices ==
    { Unset } \cup { Some(m) : m \in Maps(GroupNames, SeqsUpTo(CoMembers, MaxMembers)) }

InitGroups ==
    /\ \E g \in CoGroupChoices, e \in Flags :
          config = [reviewers |-> reviewers_section(g, Unset, no_defaults),
                    files |-> Unset,
                    options |-> [no_options EXCEPT !.enable_group_assignment = e]]
    /\ author \in CoMembers
    /\ reviewers_arg = <<>> /\ excludes = <<>>
    /\ changed_files = [total |-> no_changes, last |-> no_changes]
    /\ title = <<>> /\ is_draft = FALSE
    /\ NotCalled

\* Inputs of the Author-Rule Matcher: rules keyed by an individual and by a
\* group.
AuthorRuleKeys == { "alice", "team" }
AuthorRuleLists == SeqsUpTo({ "alice", "bob", "team" }, MaxReviewers)

InitAuthor ==
    /\ \/ config = [reviewers |-> no_reviewers, files |-> Unset, options |-> no_options]
       \/ \E g \in OneGroupChoices,
             pa \in { Unset } \cup { Some(m) : m \in Maps(AuthorRuleKeys, AuthorRuleLists) } :
             config = [reviewers |-> reviewers_section(g, pa, no_defaults),
                       files |-> Unset, options |-> no_options]
    /\ author \in Users
    /\ reviewers_arg = <<>> /\ excludes = <<>>
    /\ changed_files = [total |-> no_changes, last |-> no_changes]
    /\ title = <<>> /\ is_draft = FALSE
    /\ NotCalled

\* Inputs of the Default Reviewer Selector: defaults absent, a lone string
\* (not a sequence) or a list.
DefaultsChoices ==
    { no_defaults } \cup { [kind |-> "string", val |-> << u >>] : u \in Ids }
        \cup { [kind |-> "array", val |-> l] : l \in ReviewerLists }

InitDefaults ==
    /\ \/ config = [reviewers |-> no_reviewers, files |-> Unset, options |-> no_options]
       \/ \E g \in OneGroupChoices, d \in DefaultsChoices :
             config = [reviewers |-> reviewers_section(g, Unset, d),
                       files |-> Unset, options |-> no_options]
    /\ excludes \in ExcludeLists
    /\ reviewers_arg = <<>> /\ author = "alice"
    /\ changed_files = [total |-> no_changes, last |-> no_changes]
    /\ title = <<>> /\ is_draft = FALSE
    /\ NotCalled

\* Inputs of the File-Rule Matcher.
FileRuleLists == { <<>>, << "bob" >>, << "team" >>, << "bob", "team" >> }
FileGroups == Some(<< [key |-> "team", val |-> << "alice", "bob" >>] >>)

InitFiles ==
    /\ \E l \in Flags,
          f \in { Unset } \cup { Some(m) : m \in Maps(GlobPatterns, FileRuleLists) } :
          config = [reviewers |-> reviewers_section(FileGroups, Unset, no_defaults),
                    files |-> f,
                    options |-> [no_options EXCEPT !.last_files_match_only = l]]
    /\ changed_files \in ChangeSets
    /\ excludes \in { <<>>, << "bob" >> }
    /\ reviewers_arg = <<>> /\ author = "alice"
    /\ title = <<>> /\ is_draft = FALSE
    /\ NotCalled

\* Inputs of the Request Gate.
InitGate ==
    /\ \E d \in Flags,
          k \in { Unset } \cup { Some(l) : l \in SeqsUpTo(Keywords, MaxKeywords) } :
          config = [reviewers |-> no_reviewers, files |-> Unset,
                    options |-> [no_options EXCEPT !.ignore_draft = d,
                                                   !.ignored_keywords = k]]
    /\ title \in Titles
    /\ is_draft \in BOOLEAN
    /\ reviewers_arg = <<>> /\ excludes = <<>> /\ author = "alice"
    /\ changed_files = [total |-> no_changes, last |-> no_changes]
    /\ NotCalled

----------------------------------------------------------------------------
(* One action per exported function of reviewer.js, and one for the         *)
(* private resolver: the function runs on the inputs and its outcome is     *)
(* recorded.  The engine never writes its inputs.                           *)

Call_replace_groups_with_individuals ==
    /\ op' = "replace_groups_with_individuals"
    /\ result' = List(replace_groups_with_individuals(reviewers_arg, config, excludes))
    /\ UNCHANGED << engine_inputs, boundary_vars >>

Call_fetch_other_group_members ==
    /\ op' = "fetch_other_group_members"
    /\ result' = fetch_other_group_members(author, config)
    /\ UNCHANGED << engine_inputs, boundary_vars >>

Call_identify_reviewers_by_changed_files ==
    /\ op' = "identify_reviewers_by_changed_files"
    /\ result' = identify_reviewers_by_changed_files(config, changed_files, excludes)
    /\ UNCHANGED << engine_inputs, boundary_vars >>

Call_identify_reviewers_by_author ==
    /\ op' = "identify_reviewers_by_author"
    /\ result' = identify_reviewers_by_author(config, author)
    /\ UNCHANGED << engine_inputs, boundary_vars >>

Call_should_request_review ==
    /\ op' = "should_request_review"
    /\ result' = should_request_review(title, is_draft, config)
    /\ UNCHANGED << engine_inputs, boundary_vars >>

Call_fetch_default_reviewers ==
    /\ op' = "fetch_default_reviewers"
    /\ result' = fetch_default_reviewers(config, excludes)
    /\ UNCHANGED << engine_inputs, boundary_vars >>

SpecResolver == InitResolver /\ [][Call_replace_groups_with_individuals]_vars
SpecGroups == InitGroups /\ [][Call_fetch_other_group_members]_vars
SpecFiles == InitFiles /\ [][Call_identify_reviewers_by_changed_files]_vars
SpecAuthor == InitAuthor /\ [][Call_identify_reviewers_by_author]_vars
SpecGate == InitGate /\ [][Call_should_request_review]_vars
SpecDefaults == InitDefaults /\ [][Call_fetch_default_reviewers]_vars

\* The four functions that return reviewers, each on the inputs of all four.
Init ==
    \/ InitGroups
    \/ InitFiles
    \/ InitAuthor
    \/ InitDefaults

Next ==
    \/ Call_fetch_other_group_members
    \/ Call_identify_reviewers_by_changed_files
    \/ Call_identify_reviewers_by_author
    \/ Call_fetch_default_reviewers

Spec == Init /\ [][Next]_vars

----------------------------------------------------------------------------
(* github.js: the module-level caches and their accessors.                  *)
(*                                                                          *)
(* A cache is [set, val]: unset is undefined.  A cached string is served    *)
(* by `cache || read()` only when it is truthy, that is non-empty; the      *)
(* cached flag is served by `cache ?? read()` whenever it is set.  github's *)
(* context object and an Octokit client are always truthy; a client is      *)
(* modelled by the token it was built with.                                 *)

Contexts == { "ctx1", "ctx2" }
Environments ==
    [token : { "t1", "t2" }, config : { "p1", "p2" }, use_local : { "true", "false" }]

truthy(cache) == cache.set /\ cache.val # ""

\* cache || (cache = source), as [ret, cache]
or_assign(cache, source) ==
    IF truthy(cache) THEN [ret |-> cache.val, cache |-> cache]
    ELSE [ret |-> source, cache |-> Some(source)]

get_context(cache, context) == or_assign(cache, context)

get_token(cache, env) == or_assign(cache, env.token)

get_config_path(cache, env) == or_assign(cache, env.config)

\* use_local_cache ?? (use_local_cache = core.getInput('use_local') === 'true')
get_use_local(cache, env) ==
    IF cache.set THEN [ret |-> cache.val, cache |-> cache]
    ELSE [ret |-> env.use_local = "true", cache |-> Flag(env.use_local = "true")]

\* as [ret, cache, token_cache, called_get_token]
get_octokit(cache, tcache, env) ==
    IF cache.set
    THEN [ret |-> cache.val, cache |-> cache, token_cache |-> tcache,
          called_get_token |-> FALSE]
    ELSE LET token == get_token(tcache, env)
         IN [ret |-> token.ret, cache |-> Some(token.ret),
             token_cache |-> token.cache, called_get_token |-> TRUE]

\* the caches after clear_cache, as a record of the five
clear_cache(caches) ==
    [context_cache |-> Unset, token_cache |-> Unset, config_path_cache |-> Unset,
     use_local_cache |-> caches.use_local_cache, octokit_cache |-> Unset]

Call_get_context ==
    LET r == get_context(context_cache, github_context)
    IN /\ context_cache' = r.cache
       /\ op' = "get_context"
       /\ result' = Str(r.ret)
       /\ fresh' = fresh \ { "get_context" }
       /\ UNCHANGED << engine_inputs, github_context, inputs, token_cache,
                       config_path_cache, use_local_cache, octokit_cache >>

Call_get_token ==
    LET r == get_token(token_cache, inputs)
    IN /\ token_cache' = r.cache
       /\ op' = "get_token"
       /\ result' = Str(r.ret)
       /\ fresh' = fresh \ { "get_token" }
       /\ UNCHANGED << engine_inputs, github_context, inputs, context_cache,
                       config_path_cache, use_local_cache, octokit_cache >>

Call_get_config_path ==
    LET r == get_config_path(config_path_cache, inputs)
    IN /\ config_path_cache' = r.cache
       /\ op' = "get_config_path"
       /\ result' = Str(r.ret)
       /\ fresh' = fresh \ { "get_config_path" }
       /\ UNCHANGED << engine_inputs, github_context, inputs, context_cache,
                       token_cache, use_local_cache, octokit_cache >>

Call_get_use_local ==
    LET r == get_use_local(use_local_cache, inputs)
    IN /\ use_local_cache' = r.cache
       /\ op' = "get_use_local"
       /\ result' = Bool(r.ret)
       /\ fresh' = fresh \ { "get_use_local" }
       /\ UNCHANGED << engine_inputs, github_context, inputs, context_cache,
                       token_cache, config_path_cache, octokit_cache >>

Call_get_octokit ==
    LET r == get_octokit(octokit_cache, token_cache, inputs)
    IN /\ octokit_cache' = r.cache
       /\ token_cache' = r.token_cache
       /\ op' = "get_octokit"
       /\ result' = Result("octokit", <<>>, FALSE, r.ret)
       /\ fresh' = fresh \ ({ "get_octokit" } \cup
                            IF r.called_get_token THEN { "get_token" } ELSE {})
       /\ UNCHANGED << engine_inputs, github_context, inputs, context_cache,
                       config_path_cache, use_local_cache >>

Call_clear_cache ==
    LET c == clear_cache([context_cache |-> context_cache, token_cache |-> token_cache,
                          config_path_cache |-> config_path_cache,
                          use_local_cache |-> use_local_cache,
                          octokit_cache |-> octokit_cache])
    IN /\ context_cache' = c.context_cache
       /\ token_cache' = c.token_cache
       /\ config_path_cache' = c.config_path_cache
       /\ use_local_cache' = c.use_local_cache
       /\ octokit_cache' = c.octokit_cache
       /\ op' = "clear_cache"
       /\ result' = NoResult
       /\ fresh' = Accessors
       /\ UNCHANGED << engine_inputs, github_context, inputs >>

\* fetch_config up to its read: the four accessors in the order of lines
\* 237-240, then the choice of line 243 between the remote repository and
\* the local file.  The read itself is the platform's or the file system's.
Call_fetch_config ==
    LET context == get_context(context_cache, github_context)
        octokit == get_octokit(octokit_cache, token_cache, inputs)
        config_path == get_config_path(config_path_cache, inputs)
        useLocal == get_use_local(use_local_cache, inputs)
    IN /\ context_cache' = context.cache
       /\ octokit_cache' = octokit.cache
       /\ token_cache' = octokit.token_cache
       /\ config_path_cache' = config_path.cache
       /\ use_local_cache' = useLocal.cache
       /\ op' = "fetch_config"
       /\ result' = Result("config", <<>>, useLocal.ret,
                           IF useLocal.ret THEN "local" ELSE "remote")
       /\ fresh' = fresh \ ({ "get_context", "get_octokit", "get_config_path",
                              "get_use_local" } \cup
                            IF octokit.called_get_token THEN { "get_token" } ELSE {})
       /\ UNCHANGED << engine_inputs, github_context, inputs >>

\* The action is run again, or a test stubs github.context and
\* core.getInput anew: the sources change under the caches.
Environment ==
    /\ \E c \in Contexts, e \in Environments :
          /\ << c, e >> # << github_context, inputs >>
          /\ github_context' = c
          /\ inputs' = e
    /\ op' = "environment"
    /\ result' = NoResult
    /\ UNCHANGED << engine_inputs, context_cache, token_cache, config_path_cache,
                    use_local_cache, octokit_cache, fresh >>

InitBoundary ==
    /\ config = [reviewers |-> no_reviewers, files |-> Unset, options |-> no_options]
    /\ changed_files = [total |-> no_changes, last |-> no_changes]
    /\ excludes = <<>> /\ author = "alice" /\ title = <<>> /\ is_draft = FALSE
    /\ reviewers_arg = <<>>
    /\ op = "none" /\ result = NoResult
    /\ github_context \in Contexts
    /\ inputs \in Environments
    /\ context_cache = Unset
    /\ token_cache = Unset
    /\ config_path_cache = Unset
    /\ use_local_cache = UnsetFlag
    /\ octokit_cache = Unset
    /\ fresh = Accessors

NextBoundary ==
    \/ Call_get_context
    \/ Call_get_token
    \/ Call_get_config_path
    \/ Call_get_use_local
    \/ Call_get_octokit
    \/ Call_clear_cache
    \/ Call_fetch_config
    \/ Environment

SpecBoundary == InitBoundary /\ [][NextBoundary]_vars

----------------------------------------------------------------------------
(* What the claims speak of, in terms of sets. *)

TheGroups == groups_of(config)

IsGroup(id) == HasKey(TheGroups, id)

\* the individuals a reviewer list stands for: each group by its members
ExpandSet(l) ==
    UNION { IF IsGroup(r) THEN Range(Get(TheGroups, r)) ELSE { r } : r \in Range(l) }

Ran(name) == op = name

ResultLists ==
    { result.list, result.matched, result.must_be_added,
      result.should_be_added, result.could_be_removed }

----------------------------------------------------------------------------
(* C9 *)

GroupFree(l) == \A i \in 1..Len(l) : ~IsGroup(l[i])

\* C9, as claimed: the resolver, with no exclusions, returns every list
\* that names no group unchanged.
C9_GroupFreeUnchanged ==
    (Ran("replace_groups_with_individuals") /\ excludes = <<>> /\ GroupFree(reviewers_arg))
        => result.list = reviewers_arg

\* C9, amended: the resolver, with no exclusions, returns every list that
\* names no group and repeats no identifier unchanged, in the same order.
C9_GroupFreeDistinctUnchanged ==
    (Ran("replace_groups_with_individuals") /\ excludes = <<>>
        /\ GroupFree(reviewers_arg) /\ NoDuplicates(reviewers_arg))
        => result.list = reviewers_arg

C9_Witness ==
    /\ Ran("replace_groups_with_individuals")
    /\ excludes = <<>>
    /\ Len(TheGroups) > 0
    /\ Len(reviewers_arg) >= 2
    /\ GroupFree(reviewers_arg) /\ NoDuplicates(reviewers_arg)
    /\ result.list = reviewers_arg

----------------------------------------------------------------------------
(* C7 *)

GroupsOfAuthor == { i \in 1..Len(TheGroups) : author \in Range(TheGroups[i].val) }

\* C7: fetch_other_group_members returns nothing unless
\* enable_group_assignment is true, and then exactly the members, other
\* than the author, of the groups whose member list holds the author.
C7_OtherGroupMembers ==
    Ran("fetch_other_group_members") =>
        /\ result.kind = "list"
        /\ config.options.enable_group_assignment # Flag(TRUE) => result.list = <<>>
        /\ config.options.enable_group_assignment = Flag(TRUE) =>
              Range(result.list) =
                  (UNION { Range(TheGroups[i].val) : i \in GroupsOfAuthor }) \ { author }

C7_Witness ==
    /\ Ran("fetch_other_group_members")
    /\ config.options.enable_group_assignment = Flag(TRUE)
    /\ GroupsOfAuthor # {}
    /\ \E i \in 1..Len(TheGroups) :
          /\ i \notin GroupsOfAuthor
          /\ \E m \in Range(TheGroups[i].val) : m \notin Range(result.list)
    /\ result.list # <<>>

----------------------------------------------------------------------------
(* C3 *)

PerAuthor == config.reviewers.per_author.val

KeyMatchesAuthor(k) ==
    k = author \/ (IsGroup(k) /\ author \in Range(Get(TheGroups, k)))

MatchingKeys == { i \in 1..Len(PerAuthor) : KeyMatchesAuthor(PerAuthor[i].key) }

\* C3: with per-author rules, identify_reviewers_by_author returns, as a
\* set, the expanded reviewers of every rule whose key is the author or a
\* group holding the author, less the author.
C3_AuthorRules ==
    (Ran("identify_reviewers_by_author")
        /\ config.reviewers.set /\ config.reviewers.per_author.set)
        => /\ result.kind = "list"
           /\ Range(result.list) =
                 (UNION { ExpandSet(PerAuthor[i].val) : i \in MatchingKeys }) \ { author }

C3_Witness ==
    /\ Ran("identify_reviewers_by_author")
    /\ config.reviewers.set /\ config.reviewers.per_author.set
    /\ Cardinality(MatchingKeys) = 2
    /\ \E i \in MatchingKeys : IsGroup(PerAuthor[i].key)
    /\ \E i \in MatchingKeys : author \in ExpandSet(PerAuthor[i].val)
    /\ result.list # <<>>

----------------------------------------------------------------------------
(* C6 *)

IsSubstring(needle, haystack) ==
    \E i \in 0..Len(haystack) : \E j \in i..Len(haystack) :
        SubSeq(haystack, i + 1, j) = needle

IgnoresDraft ==
    config.options.ignore_draft = UnsetFlag \/ config.options.ignore_draft = Flag(TRUE)

IgnoredKeywords ==
    IF config.options.ignored_keywords.set
    THEN Range(config.options.ignored_keywords.val)
    ELSE { DO_NOT_REVIEW }

\* C6: should_request_review is false exactly when the pull request is a
\* draft and drafts are ignored (the default), or the title holds one of
\* the ignored keywords, which are the configured ones or else the default.
C6_RequestGate ==
    Ran("should_request_review") =>
        /\ result.kind = "bool"
        /\ result.bool = FALSE <=>
              \/ IgnoresDraft /\ is_draft
              \/ \E k \in IgnoredKeywords : IsSubstring(k, title)

C6_Witness ==
    /\ Ran("should_request_review")
    /\ is_draft /\ config.options.ignore_draft = Flag(FALSE)
    /\ config.options.ignored_keywords.set
    /\ config.options.ignored_keywords.val # <<>>
    /\ IsSubstring(DO_NOT_REVIEW, title)
    /\ result.bool = TRUE

----------------------------------------------------------------------------
(* C5 *)

\* C5: nothing of the exclusion set is in a bucket of
\* identify_reviewers_by_changed_files or in the list of
\* fetch_default_reviewers, also when it came in through a group.
C5_Exclusion ==
    (Ran("identify_reviewers_by_changed_files") \/ Ran("fetch_default_reviewers"))
        => \A l \in ResultLists : Range(l) \cap Range(excludes) = {}

C5_Witness ==
    /\ Ran("fetch_default_reviewers")
    /\ \E e \in Range(excludes) :
          /\ e \notin Range(config.reviewers.defaults.val)
          /\ e \in ExpandSet(config.reviewers.defaults.val)
    /\ result.list # <<>>

----------------------------------------------------------------------------
(* C8 *)

IsEmptyResult ==
    /\ result.kind \in { "list", "buckets" }
    /\ \A l \in ResultLists : l = <<>>

\* C8: without file rules, without per-author rules, without a defaults
\* list (absent, or not a sequence) the function returns an empty result
\* and does not throw.
C8_Unconfigured ==
    /\ (Ran("identify_reviewers_by_changed_files")
           /\ (~config.files.set \/ config.files.val = <<>>)) => IsEmptyResult
    /\ (Ran("identify_reviewers_by_author")
           /\ (~config.reviewers.set \/ ~config.reviewers.per_author.set
                  \/ config.reviewers.per_author.val = <<>>)) => IsEmptyResult
    /\ (Ran("fetch_default_reviewers")
           /\ (~config.reviewers.set \/ config.reviewers.defaults.kind # "array"))
          => IsEmptyResult

C8_Witness ==
    /\ Ran("identify_reviewers_by_changed_files")
    /\ ~config.files.set
    /\ changed_files.last.added # <<>>
    /\ excludes # <<>>
    /\ result = List(<<>>)

----------------------------------------------------------------------------
(* C4 *)

\* C4, as claimed: no list returned by identify_reviewers_by_changed_files,
\* identify_reviewers_by_author, fetch_other_group_members or
\* fetch_default_reviewers holds an identifier twice.
C4_NoRepeatedIdentifier ==
    (\/ Ran("identify_reviewers_by_changed_files")
     \/ Ran("identify_reviewers_by_author")
     \/ Ran("fetch_other_group_members")
     \/ Ran("fetch_default_reviewers"))
        => \A l \in ResultLists : NoDuplicates(l)

----------------------------------------------------------------------------
(* C1, C2 *)

FileRules == config.files.val

FilesOf(diff) == Range(diff.added) \cup Range(diff.removed) \cup Range(diff.modified)

RulesMatching(files) ==
    { i \in 1..Len(FileRules) : \E f \in files : minimatch(f, FileRules[i].key) }

\* the reviewers of the rules matching one of the files, expanded, less the
\* exclusions
ReviewersFor(files) ==
    (UNION { ExpandSet(FileRules[i].val) : i \in RulesMatching(files) }) \ Range(excludes)

Reverted == FilesOf(changed_files.last) \ FilesOf(changed_files.total)

AccumulatedBuckets ==
    /\ result.kind = "buckets"
    /\ Range(result.must_be_added) =
          ReviewersFor(Range(changed_files.last.added) \cup Range(changed_files.last.removed))
    /\ Range(result.should_be_added) = ReviewersFor(Range(changed_files.last.modified))
    /\ Range(result.could_be_removed) = ReviewersFor(Reverted)

\* C1, as claimed: with file rules, the four buckets hold the reviewers of
\* the rules matching the added or removed files of the last commit, its
\* modified files, its reverted files and (last_files_match_only off) any
\* of its files.
C1_Classification ==
    (Ran("identify_reviewers_by_changed_files") /\ config.files.set)
        => /\ AccumulatedBuckets
           /\ config.options.last_files_match_only # Flag(TRUE) =>
                 Range(result.matched) = ReviewersFor(FilesOf(changed_files.last))

LastMatching ==
    CHOOSE i \in RulesMatching(FilesOf(changed_files.last)) :
        \A j \in RulesMatching(FilesOf(changed_files.last)) : j <= i

\* C2, as claimed: with last_files_match_only on and several rules matching
\* files of the last commit, matched holds the reviewers of the last
\* matching rule alone and the other three buckets accumulate.
C2_LastMatchOnly ==
    (Ran("identify_reviewers_by_changed_files") /\ config.files.set
        /\ config.options.last_files_match_only = Flag(TRUE)
        /\ Cardinality(RulesMatching(FilesOf(changed_files.last))) >= 2)
        => /\ AccumulatedBuckets
           /\ Range(result.matched) =
                 ExpandSet(FileRules[LastMatching].val) \ Range(excludes)

----------------------------------------------------------------------------
(* C10 *)

\* what an accessor returns when it reads its source now
FromSource(a) ==
    CASE a = "get_context" -> Str(github_context)
      [] a = "get_token" -> Str(inputs.token)
      [] a = "get_config_path" -> Str(inputs.config)
      [] a = "get_use_local" -> Bool(inputs.use_local = "true")
      [] a = "get_octokit" ->
            Result("octokit", <<>>, FALSE, get_token(token_cache, inputs).ret)

\* C10, as claimed: the first call of each of the five accessors after
\* clear_cache (or after the module is loaded) returns what its source
\* holds at the call, not a value cached earlier.
C10_FirstCallRereads ==
    [][\A a \in Accessors : (a \in fresh /\ op' = a) => result' = FromSource(a)]_vars

====
